---- MODULE Spec2Model ----
(***************************************************************************)
(* Playback and state-synchronisation engine of foogle: the recipe cards   *)
(* (FullScreenRecipeCard), the lists that render them (FeedView,           *)
(* FavoritesView, RecipeScroller), the visibility tracker of the lists and *)
(* the video/voiceover synchroniser of a card.                             *)
(*                                                                         *)
(* React is modelled by what it does here: a state change re-renders, the  *)
(* effects whose dependencies changed then run in tree order (cards by     *)
(* index, the effects of one card in the order they are declared), and     *)
(* nothing else runs until that flush is finished (pending = << >>).       *)
(* An audio element is modelled by the HTML media element rules the code   *)
(* relies on: play() clears paused at once and queues a 'play' event,      *)
(* pause() sets paused and queues 'pause' and rejects the pending play     *)
(* promise, load() resets the element without a 'pause' event, loadeddata  *)
(* and canplay are delivered once per load.                                *)
(***************************************************************************)
EXTENDS Integers, Sequences, FiniteSets, TLC

\* ------------------------------------------------------------------ bounds
NumCards == 2      \* cards rendered by a list
MaxPos == 11       \* audio positions 0..MaxPos, in ticks of 0.1 s
MaxQueue == 2      \* media events queued and not yet delivered, all cards
VideoDuration == 6 \* length of a video clip, in ticks of 0.1 s
MaxStep == 2       \* most ticks between two timeupdate events (at most 0.25 s)
NumItems == 3      \* most cards of a tracked list
ScrollStops == 2   \* scroll positions per card height
MaxScrolls == 3    \* scroll events of a run
NumKeys == 2       \* distinct recipes the cards may show
MaxToggles == 3    \* authenticated favorite toggles of a run
MaxRecipes == 3    \* most recipes of a generated plan

\* ----------------------------------------------- constants of the code
LoopWindow == 3    \* 0.3 s, in ticks of 0.1 s
DriftLimit == 10   \* 1.0 s
TimerDelay == 20   \* setTimeout(..., 2000)
CardHeight == 60   \* h-screen: a card is as high as the scroll container
FeedMarginPct == 40       \* rootMargin '-40% 0px -40% 0px'
FavoritesMarginPct == 45  \* rootMargin '-45% 0px -45% 0px'

Cards == 0 .. (NumCards - 1)

Abs(x) == IF x < 0 THEN -x ELSE x
ListKinds == {"feed", "favorites", "scroller"}

VARIABLES
  listKind,     \* which list renders the cards
  mounted,      \* the list and its cards are mounted
  itemVoice,    \* itemVoice[i]: the data of item i carries a voiceover URL
  itemVideo,    \* itemVideo[i]: the data of item i carries a video URL
  gesture,      \* the page has had a user gesture (autoplay is allowed)
  activeIndex,  \* visibleItemIndex / visibleFavoriteIndex (useState(0))
  inView,       \* the card the scroll container currently shows
  card,         \* card[i]: props, state, refs and audio element of card i
  video,        \* video[i]: video element and synchroniser closure of card i
  pending,      \* effects of the current flush still to run, in order
  turn,         \* the task that began the current event-loop turn
  dispatched,   \* {i} right after card i's stopAllRecipeAudio dispatch, else {}
  tLen,         \* feedItems.length / favorites.length of the tracked list
  scrollTop,    \* offset of the container's top edge from the top of card 0
  raf,          \* requestAnimationFrame(handleScroll) callbacks pending
  ioSeen,       \* per observed card, the threshold state last notified
  queued,       \* state update queued by the effects of the current flush
  scrollsLeft,  \* scroll events the run may still have
  plan,         \* the CulinaryPlan handed to RecipeScroller
  rendered,     \* rendered[i]: the media card i of RecipeScroller shows
  session,      \* the session provider holds an authenticated user
  favStore,     \* the favorites store: the (title, ingredients) keys saved
  favCard,      \* favCard[i]: recipe key, isFavorited, showLoginPrompt
  isLoginModalOpen, \* App: the login modal is open
  notified,     \* calls of onFavoriteChange so far
  liked,        \* the feed store: the ids of the liked feed items
  user,         \* App: a user is signed in (FALSE: null)
  favoriteCount, \* App: the number shown on the favorites button
  appState,     \* App: AppState
  culinaryPlan, \* App: the plan shown (present = FALSE: null)
  upload        \* the running handleImageUpload call, if any

assemblyVars == <<plan, rendered>>

favVars == <<session, favStore, favCard, isLoginModalOpen, notified, liked,
             user, favoriteCount>>

appVars == <<appState, culinaryPlan, upload>>

trackerVars == <<tLen, scrollTop, raf, ioSeen, queued, scrollsLeft>>

\* What no action of the cards changes: the data the list was mounted with
\* and the geometry of the list.
fixedVars == <<listKind, mounted, itemVoice, itemVideo, trackerVars,
               assemblyVars, favVars, appVars>>

\* What no action of the tracker changes.
cardOnlyVars == <<favVars, appVars, mounted, itemVoice, itemVideo, gesture, inView, card, video, turn,
                  dispatched, assemblyVars>>

cardVars == <<fixedVars, gesture, activeIndex, inView, card, video, pending,
              turn, dispatched>>

\* ------------------------------------------------------- props of a card
\* isVisible as the list passes it: FeedView and FavoritesView derive it from
\* the one shared index, RecipeScroller passes nothing (default false).
IsVisiblePropNear(idx, i) ==
  IF listKind = "scroller" THEN FALSE ELSE idx - i \in {-1, 0, 1}

IsVisibleProp(idx, i) ==
  IF listKind = "scroller" THEN FALSE ELSE idx = i

\* recipeIndex as the list passes it: FeedView index, FavoritesView 0,
\* RecipeScroller nothing (default 0).
RecipeIndex(i) ==
  IF listKind = "feed" THEN i ELSE 0

\* The keys of culinaryPlan.recipeVoiceovers of card i: the feeds build a plan
\* per card with the item's URL under key 0, the scroller passes the whole plan.
PlanVoiceoverKeys(i) ==
  IF listKind = "scroller"
    THEN {j \in Cards : itemVoice[j]}
    ELSE IF itemVoice[i] THEN {0} ELSE {}

\* hasVoiceover = !!culinaryPlan?.recipeVoiceovers?.[recipeIndex]; the <audio>
\* element is rendered (audioRef.current is set) exactly when it is true.
HasVoiceover(i) == RecipeIndex(i) \in PlanVoiceoverKeys(i)

\* isVisible as captured by the oncanplay closure, which is set once, when the
\* source is attached at mount (the index is 0 then).
OnCanPlayVisible(i) == IsVisibleProp(0, i)

\* ------------------------------------------------- the audio element
\* play(): rejected when the platform blocks it (every caller catches the
\* rejection), else clears paused and queues a 'play' event if the element
\* was paused. refused is history: the play() calls of this card that were
\* rejected since its last activation or user click, counted up to 2.
Play(c, allowed) ==
  IF ~allowed THEN [c EXCEPT !.refused = IF @ < 2 THEN @ + 1 ELSE @]
  ELSE IF c.paused
    THEN [c EXCEPT !.paused = FALSE, !.evq = Append(@, "play")]
    ELSE c

\* pause(): sets paused, queues 'pause', rejects the pending play promise.
Pause(c) ==
  IF c.paused THEN c
  ELSE [c EXCEPT !.paused = TRUE, !.evq = Append(@, "pause"),
                 !.thenPending = FALSE]

\* load(): the element is reset; paused is set without a 'pause' event.
Load(c) ==
  [c EXCEPT !.paused = TRUE, !.thenPending = FALSE, !.ready = 0, !.pos = 0]

\* attemptPlay: currentTime = 0; play().then(() => setIsVoiceoverPlaying(true))
AttemptPlay(c, allowed) ==
  LET d == Play([c EXCEPT !.pos = 0], allowed)
  IN  [d EXCEPT !.thenPending = allowed]

\* pause(); currentTime = 0; setIsVoiceoverPlaying(false)
StopAudioFlipsFlag(c) ==
  [Pause(c) EXCEPT !.pos = 0, !.flag = ~@]

StopAudio(c) ==
  [Pause(c) EXCEPT !.pos = 0, !.flag = FALSE]

\* The task that began the current event-loop turn.
Turn(op, a, b) == [op |-> op, from |-> a, to |-> b]

\* ------------------------------------------------------------- Init
\* The state after the list has mounted its cards with index 0: every card
\* with a voiceover has attached its source and called load(); the card that
\* is visible at mount has run the activation branch on an element with
\* readyState 0 (once-listeners registered, prevVisibleRef set).
InitCard(i) ==
  LET vis == IsVisibleProp(0, i) /\ HasVoiceover(i)
  IN  [isVisible |-> IsVisibleProp(0, i),
       prevVisible |-> vis,
       muted |-> FALSE,
       flag |-> FALSE,
       paused |-> TRUE,
       pos |-> 0,
       ready |-> 0,
       onceLoaded |-> vis,
       onceCanPlay |-> vis,
       thenPending |-> FALSE,
       evq |-> << >>,
       refused |-> 0]

\* The video element of a card right after mount (currentTime 0, playing:
\* muted autoPlay loop) and the closure of its synchroniser. prevActive and
\* prevHandled are history: the last time the video reported was reported
\* while this card was active in its current activation / to the timeupdate
\* handler that is registered now. run is history too: the ticks of video
\* time reported by timeupdate events that followed one another without a
\* gap (so that the timeout never expired) to the registered handler while
\* the audio was playing, since the timeout callback last ran; it stops
\* counting one tick above TimerDelay. corrected is history: the timeout
\* callback that ran last moved the audio, and since then the handler has
\* stayed registered and the user has not paused or resumed the audio.
InitVideo ==
  [time |-> 0, last |-> 0, timer |-> -1,
   prevActive |-> FALSE, prevHandled |-> FALSE, run |-> 0,
   corrected |-> FALSE]

\* No list geometry: the cards are driven by index changes alone.
NoTracker ==
  /\ tLen = 0
  /\ scrollTop = 0
  /\ raf = 0
  /\ ioSeen = << >>
  /\ queued = {}
  /\ scrollsLeft = 0

\* No favorite has been touched and nobody is signed in.
NoFavorites ==
  /\ session = FALSE
  /\ favStore = {}
  /\ favCard = [i \in Cards |->
                  [key |-> 0, isFavorited |-> FALSE, showLoginPrompt |-> FALSE]]
  /\ isLoginModalOpen = FALSE
  /\ notified = 0
  /\ liked = {}
  /\ user = FALSE
  /\ favoriteCount = 0

\* The App after the plan has been shown; no upload is running.
NoUpload ==
  [pc |-> "idle", testMode |-> FALSE, outcome |-> "none", i |-> 0,
   recipes |-> 0, scripts |-> {}, videos |-> {}, voiceovers |-> {},
   failed |-> {}]

NoPlan == [present |-> FALSE, recipes |-> 0, videos |-> {}, voiceovers |-> {}]

NoApp ==
  /\ appState = "UPLOADING"
  /\ culinaryPlan = NoPlan
  /\ upload = NoUpload

\* No plan is being rendered by RecipeScroller.
NoAssembly ==
  /\ plan = << >>
  /\ rendered = << >>

InitCards ==
  /\ NoTracker
  /\ NoAssembly
  /\ listKind \in ListKinds
  /\ itemVoice \in [Cards -> BOOLEAN]
  /\ itemVideo = [i \in Cards |-> FALSE]
  /\ gesture \in BOOLEAN
  /\ NoFavorites
  /\ NoApp
  /\ mounted = TRUE
  /\ activeIndex = 0
  /\ inView = 0
  /\ card = [i \in Cards |-> InitCard(i)]
  /\ video = [i \in Cards |-> InitVideo]
  /\ pending = << >>
  /\ turn = Turn("mount", 0, 0)
  /\ dispatched = {}

\* ------------------------------------------------------ the effects of a card
Effect(i, e) == [c |-> i, e |-> e]

\* The 'Sync audio with video' effect returns at once, and has no cleanup,
\* unless the card has both a video and a voiceover.
HasSync(i) == itemVideo[i] /\ HasVoiceover(i)

\* The effects of card i that depend on isVisible and touch the audio, in the
\* order the component declares them.
VisibilityEffects(i) ==
  <<Effect(i, "broadcast"), Effect(i, "playPause")>>
  \o (IF HasSync(i) THEN <<Effect(i, "sync")>> ELSE << >>)

\* The effects that run after the index went from a to b: those of the two
\* cards whose isVisible changed, in tree order.
PublishEffects(a, b) ==
  LET lo == IF a < b THEN a ELSE b
      hi == IF a < b THEN b ELSE a
  IN  (IF lo \in Cards THEN VisibilityEffects(lo) ELSE << >>)
      \o (IF hi \in Cards THEN VisibilityEffects(hi) ELSE << >>)

\* handleStopAudio of card j on an event carrying exceptIndex = newVisibleIndex = x
HandleStopAudio(j, x, c) ==
  IF x # RecipeIndex(j) /\ x # RecipeIndex(j)
    THEN IF HasVoiceover(j) THEN StopAudio(c) ELSE c
    ELSE c

\* The 'Global audio manager' effect: a card that just became visible
\* dispatches stopAllRecipeAudio, which every mounted card handles at once.
BroadcastEffect ==
  /\ pending # << >>
  /\ Head(pending).e = "broadcast"
  /\ LET i == Head(pending).c
     IN  IF card[i].isVisible /\ ~card[i].prevVisible
           THEN /\ card' = [j \in Cards |->
                              HandleStopAudio(j, RecipeIndex(i), card[j])]
                /\ dispatched' = {i}
           ELSE /\ card' = card
                /\ dispatched' = {}
  /\ pending' = Tail(pending)
  /\ UNCHANGED <<fixedVars, video, gesture, activeIndex, inView, turn>>

\* The branch of the play/pause effect taken when the card just became
\* visible and is not muted.
StartOnVisible(c, allowed) ==
  LET z == [c EXCEPT !.pos = 0, !.refused = 0]
  IN  IF z.ready >= 2
        THEN AttemptPlay(z, allowed)
        ELSE LET w == [z EXCEPT !.onceLoaded = TRUE, !.onceCanPlay = TRUE]
             IN  IF w.ready = 0 THEN Load(w) ELSE w

\* The 'Play/pause voiceover based on visibility' effect of one card.
PlayPause(c, allowed) ==
  LET justBecameVisible == c.isVisible /\ ~c.prevVisible
      justBecameHidden == ~c.isVisible /\ c.prevVisible
      d == IF justBecameVisible /\ ~c.muted THEN StartOnVisible(c, allowed)
           ELSE IF justBecameHidden THEN StopAudio(c)
           ELSE IF c.isVisible /\ ~c.muted /\ c.paused /\ ~justBecameVisible
             THEN Play(c, allowed)
           ELSE IF ~c.isVisible /\ ~c.paused THEN StopAudio(c)
           ELSE c
  IN  [d EXCEPT !.prevVisible = c.isVisible]

PlayPauseEffect ==
  /\ pending # << >>
  /\ Head(pending).e = "playPause"
  /\ LET i == Head(pending).c
     IN  card' = [card EXCEPT ![i] =
                    IF HasVoiceover(i) THEN PlayPause(@, gesture) ELSE @]
  /\ pending' = Tail(pending)
  /\ dispatched' = {}
  /\ UNCHANGED <<fixedVars, video, gesture, activeIndex, inView, turn>>

\* ------------------------------------------------------------ the list
\* Media events queued and not yet delivered, and the room left for the n
\* events a task may queue.
Queued ==
  LET upTo[n \in 0 .. NumCards] ==
        IF n = 0 THEN 0 ELSE upTo[n - 1] + Len(card[n - 1].evq)
  IN  upTo[NumCards]

QueueRoom(n) == Queued + n <= MaxQueue

\* The user scrolls the RecipeScroller so that card k is the one in view; no
\* handler or observer is attached to its container.
ScrollerScroll(k) ==
  /\ pending = << >>
  /\ mounted
  /\ listKind = "scroller"
  /\ k # inView
  /\ inView' = k
  /\ turn' = Turn("other", 0, 0)
  /\ dispatched' = {}
  /\ UNCHANGED <<fixedVars, video, gesture, activeIndex, card, pending>>

\* setVisibleItemIndex(k) / setVisibleFavoriteIndex(k) with k different from the
\* current index, by an estimator or by the 'Set initial visible item' line of
\* the observer effect. The list re-renders every card with the new isVisible.
Publish(k) ==
  /\ pending = << >>
  /\ mounted
  /\ listKind # "scroller"
  /\ QueueRoom(2)
  /\ k # activeIndex
  /\ activeIndex' = k
  /\ card' = [i \in Cards |->
               [card[i] EXCEPT !.isVisible = IsVisibleProp(k, i)]]
  /\ video' = [i \in Cards |->
                IF IsVisibleProp(k, i) # card[i].isVisible
                  THEN [video[i] EXCEPT !.prevActive = FALSE]
                  ELSE video[i]]
  /\ pending' = PublishEffects(activeIndex, k)
  /\ turn' = Turn("publish", activeIndex, k)
  /\ dispatched' = {}
  /\ UNCHANGED <<fixedVars, gesture, inView>>

\* ------------------------------------------------------- user controls
\* The audio element of a card after toggleVoiceover: pause() when
\* isVoiceoverPlaying, else play().
ToggledRestarts(c) ==
  [(IF c.flag THEN Pause(c) ELSE AttemptPlay(c, TRUE)) EXCEPT !.refused = 0]

Toggled(c) ==
  [(IF c.flag THEN Pause(c) ELSE Play(c, TRUE)) EXCEPT !.refused = 0]

\* toggleVoiceover: pause when the flag says playing, else play (a click is a
\* user gesture, so the play is allowed).
ToggleVoiceover(i) ==
  /\ pending = << >>
  /\ mounted
  /\ HasVoiceover(i)
  /\ QueueRoom(1)
  /\ card' = [card EXCEPT ![i] = Toggled(@)]
  /\ video' = [video EXCEPT ![i].run = 0, ![i].corrected = FALSE]
  /\ gesture' = TRUE
  /\ turn' = Turn("other", 0, 0)
  /\ dispatched' = {}
  /\ UNCHANGED <<fixedVars, activeIndex, inView, pending>>

\* setIsVoiceoverMuted(!isVoiceoverMuted) of card i: the state of that card.
SetMutedEverywhere(cs, i) ==
  [j \in Cards |-> [cs[j] EXCEPT !.muted = ~cs[i].muted]]

SetMuted(cs, i) == [cs EXCEPT ![i].muted = ~@]

\* toggleVoiceoverMute: sets the volume (0 exactly when muted, else 0.7) and
\* the flag; the re-render runs the effects that depend on isVoiceoverMuted.
ToggleVoiceoverMute(i) ==
  /\ pending = << >>
  /\ mounted
  /\ HasVoiceover(i)
  /\ QueueRoom(1)
  /\ card' = SetMuted(card, i)
  /\ pending' = <<Effect(i, "playPause")>>
                \o (IF HasSync(i) THEN <<Effect(i, "sync")>> ELSE << >>)
  /\ gesture' = TRUE
  /\ turn' = Turn("mute", i, i)
  /\ dispatched' = {}
  /\ UNCHANGED <<fixedVars, video, activeIndex, inView>>

\* ------------------------------------------------------- media events
\* 'loadeddata': readyState reaches HAVE_CURRENT_DATA; the once-listener of a
\* pending activation runs attemptPlay.
OnLoadedData(c, allowed) ==
  LET d == [c EXCEPT !.ready = 2]
  IN  IF d.onceLoaded
        THEN AttemptPlay([d EXCEPT !.onceLoaded = FALSE], allowed)
        ELSE d

AudioLoadedData(i) ==
  /\ pending = << >>
  /\ HasVoiceover(i)
  /\ QueueRoom(1)
  /\ card[i].ready = 0
  /\ card' = [card EXCEPT ![i] = OnLoadedData(@, gesture)]
  /\ turn' = Turn("other", 0, 0)
  /\ dispatched' = {}
  /\ UNCHANGED <<fixedVars, video, gesture, activeIndex, inView, pending>>

\* 'canplay': first audioElement.oncanplay (set at mount, with the isVisible and
\* isVoiceoverMuted = false of that render), then the once-listener.
OnCanPlay(c, visibleAtMount, allowed) ==
  LET d == [c EXCEPT !.ready = 4]
      f == IF visibleAtMount THEN Play([d EXCEPT !.pos = 0], allowed) ELSE d
  IN  IF f.onceCanPlay
        THEN AttemptPlay([f EXCEPT !.onceCanPlay = FALSE], allowed)
        ELSE f

AudioCanPlay(i) ==
  /\ pending = << >>
  /\ HasVoiceover(i)
  /\ QueueRoom(1)
  /\ card[i].ready = 2
  /\ card' = [card EXCEPT ![i] = OnCanPlay(@, OnCanPlayVisible(i), gesture)]
  /\ turn' = Turn("other", 0, 0)
  /\ dispatched' = {}
  /\ UNCHANGED <<fixedVars, video, gesture, activeIndex, inView, pending>>

\* The play promise of attemptPlay resolves once playback has begun; the
\* state update of an unmounted component is dropped.
PlayResolved(i) ==
  /\ pending = << >>
  /\ card[i].thenPending
  /\ card[i].ready = 4
  /\ card' = [card EXCEPT ![i].thenPending = FALSE,
                          ![i].flag = IF mounted THEN TRUE ELSE @]
  /\ turn' = Turn("other", 0, 0)
  /\ dispatched' = {}
  /\ UNCHANGED <<fixedVars, video, gesture, activeIndex, inView, pending>>

\* handlePlay / handlePause: the oldest queued 'play' or 'pause' is delivered
\* (to nobody once the card is unmounted: the listeners are removed).
DeliverEvent(i) ==
  /\ pending = << >>
  /\ card[i].evq # << >>
  /\ card' = [card EXCEPT ![i].evq = Tail(@),
                          ![i].flag = IF mounted
                                        THEN Head(card[i].evq) = "play"
                                        ELSE @]
  /\ turn' = Turn("other", 0, 0)
  /\ dispatched' = {}
  /\ UNCHANGED <<fixedVars, video, gesture, activeIndex, inView, pending>>

\* The audio plays on: the position advances and wraps (loop = true).
AudioProgress(i) ==
  /\ pending = << >>
  /\ ~card[i].paused
  /\ card[i].ready = 4
  /\ card' = [card EXCEPT ![i].pos = (@ + 1) % (MaxPos + 1)]
  /\ turn' = Turn("other", 0, 0)
  /\ dispatched' = {}
  /\ UNCHANGED <<fixedVars, video, gesture, activeIndex, inView, pending>>

\* ------------------------------------------------- video / voiceover sync
\* The closure of the synchroniser after the effect has re-run: the cleanup
\* has cleared the timeout of the old closure, and lastVideoTime and
\* syncTimeout of the new one (or of none, on a hidden card) start over.
SyncCleanupKeepsClosure(v) ==
  [v EXCEPT !.prevHandled = FALSE, !.run = 0, !.corrected = FALSE]

SyncCleanup(v) ==
  [v EXCEPT !.last = 0, !.timer = -1, !.prevHandled = FALSE, !.run = 0,
            !.corrected = FALSE]

\* The 'Sync audio with video' effect of card i, re-run because isVisible or
\* isVoiceoverMuted changed: the cleanup removes the old handler and clears
\* its timeout; a visible card registers a new handler, whose closure starts
\* with lastVideoTime = 0 and no timeout.
SyncEffect ==
  /\ pending # << >>
  /\ Head(pending).e = "sync"
  /\ LET i == Head(pending).c
     IN  video' = [video EXCEPT ![i] = SyncCleanup(@)]
  /\ pending' = Tail(pending)
  /\ dispatched' = {}
  /\ UNCHANGED <<fixedVars, gesture, activeIndex, inView, card, turn>>

\* The timeupdate handler is registered on the video of card i.
RegisteredWithoutAudio(i) == itemVideo[i] /\ card[i].isVisible

Registered(i) == HasSync(i) /\ card[i].isVisible

\* 'Detect when video loops': duration && lastVideoTime > duration - 0.3 &&
\* currentTime < 0.3
LoopDetected(last, cur) ==
  last > VideoDuration - LoopWindow /\ cur < LoopWindow

\* 'Video just looped - restart audio from beginning', unless muted.
RestartOnLoop(c, allowed) ==
  IF c.muted THEN c ELSE Play([c EXCEPT !.pos = 0], allowed)

\* The video of card i plays on (it is never paused and loops) and fires
\* 'timeupdate' with its new currentTime; handleVideoTimeUpdate, when
\* registered, checks for a loop, records the time and re-arms the timeout
\* with that time.
VideoTimeUpdate(i) ==
  /\ pending = << >>
  /\ mounted
  /\ itemVideo[i]
  /\ QueueRoom(1)
  /\ \E step \in 1 .. MaxStep :
       LET cur == (video[i].time + step) % VideoDuration
       IN
       /\ IF Registered(i)
             THEN /\ card' = [card EXCEPT ![i] =
                               IF LoopDetected(video[i].last, cur)
                                 THEN RestartOnLoop(@, gesture)
                                 ELSE @]
                  /\ video' = [video EXCEPT ![i] =
                                 [time |-> cur, last |-> cur, timer |-> cur,
                                  prevActive |-> TRUE, prevHandled |-> TRUE,
                                  corrected |-> @.corrected,
                                  run |-> IF card[i].paused \/ card[i].ready < 4
                                            THEN 0
                                          ELSE IF @.run + step > TimerDelay
                                            THEN TimerDelay + 1
                                            ELSE @.run + step]]
             ELSE /\ card' = card
                  /\ video' = [video EXCEPT ![i].time = cur,
                                            ![i].prevActive = FALSE,
                                            ![i].prevHandled = FALSE]
       /\ turn' = Turn("timeupdate", video[i].time, cur)
  /\ dispatched' = {}
  /\ UNCHANGED <<fixedVars, gesture, activeIndex, inView, pending>>

\* The position the timeout callback expects the audio at: the video time
\* captured when the timeout was armed, modulo the audio duration.
Expected(captured) == captured % (MaxPos + 1)

\* Math.abs(audioElement.currentTime - expected)
Drift(c, captured) == Abs(c.pos - Expected(captured))

\* The timeout callback: if the audio is playing (the video always is) and is
\* more than 1.0 s away from the expected position, it is moved there. Before
\* the audio has its metadata its duration is NaN and no comparison is true.
DriftCheck(c, captured) ==
  IF ~c.paused /\ c.ready >= 2 /\ Drift(c, captured) > DriftLimit
    THEN [c EXCEPT !.pos = Expected(captured)]
    ELSE c

\* No timeupdate has been handled for 2000 ms (the video is stalled, waiting
\* for data): the timeout armed by the last handled timeupdate expires.
SyncTimeout(i) ==
  /\ pending = << >>
  /\ video[i].timer # -1
  /\ card' = [card EXCEPT ![i] = DriftCheck(@, video[i].timer)]
  /\ video' = [video EXCEPT ![i].timer = -1, ![i].run = 0,
                            ![i].corrected = (card'[i].pos # card[i].pos)]
  /\ turn' = Turn("other", 0, 0)
  /\ dispatched' = {}
  /\ UNCHANGED <<fixedVars, gesture, activeIndex, inView, pending>>

\* ------------------------------------------------------------- unmount
\* What unmounting does to one card: the effect cleanups remove the
\* stopAllRecipeAudio, play/pause/ended and timeupdate listeners and clear
\* the timeout; the platform pauses an audio element that is removed from the
\* document (its position is kept, the pending play promise is rejected).
\* Nothing removes the loadeddata/canplay once-listeners or oncanplay.
UnmountCard(c) ==
  [c EXCEPT !.paused = TRUE, !.thenPending = FALSE]

\* The list (FeedView, FavoritesView, RecipeScroller) is unmounted with all
\* its cards: reset, navigating away, logout.
UnmountList ==
  /\ pending = << >>
  /\ mounted
  /\ mounted' = FALSE
  /\ card' = [i \in Cards |-> UnmountCard(card[i])]
  /\ video' = [i \in Cards |->
                [video[i] EXCEPT !.timer = -1, !.last = 0, !.run = 0,
                                 !.prevActive = FALSE, !.prevHandled = FALSE,
                                 !.corrected = FALSE]]
  /\ turn' = Turn("unmount", 0, 0)
  /\ dispatched' = {}
  /\ UNCHANGED <<listKind, itemVoice, itemVideo, trackerVars, assemblyVars,
                 favVars, appVars, gesture, activeIndex, inView, pending>>

NextCards ==
  \/ BroadcastEffect
  \/ PlayPauseEffect
  \/ \E k \in Cards : ScrollerScroll(k)
  \/ \E k \in Cards : Publish(k)
  \/ \E i \in Cards : ToggleVoiceover(i)
  \/ \E i \in Cards : ToggleVoiceoverMute(i)
  \/ \E i \in Cards : AudioLoadedData(i)
  \/ \E i \in Cards : AudioCanPlay(i)
  \/ \E i \in Cards : PlayResolved(i)
  \/ \E i \in Cards : DeliverEvent(i)
  \/ \E i \in Cards : AudioProgress(i)

\* A list whose first card has a video and a voiceover and whose other cards
\* have neither.
InitSync ==
  /\ NoTracker
  /\ NoAssembly
  /\ listKind \in {"feed", "favorites"}
  /\ itemVoice = [i \in Cards |-> i = 0]
  /\ itemVideo = [i \in Cards |-> i = 0]
  /\ gesture \in BOOLEAN
  /\ NoFavorites
  /\ NoApp
  /\ mounted = TRUE
  /\ activeIndex = 0
  /\ inView = 0
  /\ card = [i \in Cards |-> InitCard(i)]
  /\ video = [i \in Cards |-> InitVideo]
  /\ pending = << >>
  /\ turn = Turn("mount", 0, 0)
  /\ dispatched = {}

\* A list whose cards all have a voiceover, as the lists of generated
\* recipes do, opened by a user who has already interacted with the page.
InitUnmount ==
  /\ InitCards
  /\ \A i \in Cards : itemVoice[i]
  /\ gesture

NextUnmount ==
  \/ NextCards
  \/ UnmountList

\* A list whose first card has a voiceover and no video and whose other
\* cards have no voiceover and may have a video.
InitSilent ==
  /\ NoTracker
  /\ NoAssembly
  /\ listKind \in {"feed", "favorites"}
  /\ itemVoice = [i \in Cards |-> i = 0]
  /\ itemVideo \in {f \in [Cards -> BOOLEAN] : ~f[0]}
  /\ gesture \in BOOLEAN
  /\ NoFavorites
  /\ NoApp
  /\ mounted = TRUE
  /\ activeIndex = 0
  /\ inView = 0
  /\ card = [i \in Cards |-> InitCard(i)]
  /\ video = [i \in Cards |-> InitVideo]
  /\ pending = << >>
  /\ turn = Turn("mount", 0, 0)
  /\ dispatched = {}

NextSilent ==
  \/ BroadcastEffect
  \/ PlayPauseEffect
  \/ \E k \in Cards : Publish(k)
  \/ \E i \in Cards : ToggleVoiceover(i)
  \/ \E i \in Cards : ToggleVoiceoverMute(i)
  \/ \E i \in Cards : AudioLoadedData(i)
  \/ \E i \in Cards : AudioCanPlay(i)
  \/ \E i \in Cards : PlayResolved(i)
  \/ \E i \in Cards : DeliverEvent(i)
  \/ \E i \in Cards : AudioProgress(i)
  \/ \E i \in Cards : VideoTimeUpdate(i)

NextSync ==
  \/ BroadcastEffect
  \/ PlayPauseEffect
  \/ SyncEffect
  \/ \E k \in Cards : Publish(k)
  \/ \E i \in Cards : ToggleVoiceover(i)
  \/ \E i \in Cards : ToggleVoiceoverMute(i)
  \/ \E i \in Cards : AudioLoadedData(i)
  \/ \E i \in Cards : AudioCanPlay(i)
  \/ \E i \in Cards : PlayResolved(i)
  \/ \E i \in Cards : DeliverEvent(i)
  \/ \E i \in Cards : AudioProgress(i)
  \/ \E i \in Cards : VideoTimeUpdate(i)
  \/ \E i \in Cards : SyncTimeout(i)

\* ------------------------------------------------- the visibility tracker
\* Lengths are in units of 1/CardHeight of the container height. Cards are
\* stacked without gaps, card i spanning [i * CardHeight, (i + 1) * CardHeight]
\* below the top of card 0.
Items == 0 .. (tLen - 1)

ScrollPositions ==
  {k * (CardHeight \div ScrollStops) : k \in 0 .. ((tLen - 1) * ScrollStops)}

\* distanceFromCenter of card i: from the centre of the card to the centre
\* of the container.
DistanceFromCenter(i, s) ==
  Abs((i * CardHeight + CardHeight \div 2) - (s + CardHeight \div 2))

\* handleScroll's loop over the refs that are set: the card whose centre is
\* nearest to the centre of the container, the first one found on a tie, -1
\* without refs.
ClosestAmongLastWins(refs, s) ==
  LET best[n \in 0 .. tLen] ==
        IF n = 0 THEN -1
        ELSE IF (n - 1) \notin refs THEN best[n - 1]
        ELSE IF \/ best[n - 1] = -1
                \/ DistanceFromCenter(n - 1, s)
                     <= DistanceFromCenter(best[n - 1], s)
          THEN n - 1
          ELSE best[n - 1]
  IN  best[tLen]

ClosestAmongOneBased(refs, s) ==
  LET best[n \in 0 .. tLen] ==
        IF n = 0 THEN -1
        ELSE IF (n - 1) \notin refs THEN best[n - 1]
        ELSE IF \/ best[n - 1] = -1
                \/ DistanceFromCenter(n - 1, s)
                     < DistanceFromCenter(best[n - 1] - 1, s)
          THEN n
          ELSE best[n - 1]
  IN  best[tLen]

ClosestAmong(refs, s) ==
  LET best[n \in 0 .. tLen] ==
        IF n = 0 THEN -1
        ELSE IF (n - 1) \notin refs THEN best[n - 1]
        ELSE IF \/ best[n - 1] = -1
                \/ DistanceFromCenter(n - 1, s)
                     < DistanceFromCenter(best[n - 1], s)
          THEN n - 1
          ELSE best[n - 1]
  IN  best[tLen]

\* Every card of the list is rendered, so every ref is set.
ClosestIndex(s) == ClosestAmong(Items, s)

\* The observer's root rectangle: the container shrunk by rootMargin.
MarginPct == IF listKind = "feed" THEN FeedMarginPct ELSE FavoritesMarginPct

BandTop(s) == s + (MarginPct * CardHeight) \div 100

BandBottom(s) == s + CardHeight - (MarginPct * CardHeight) \div 100

\* Height of the part of card i inside the root rectangle; intersectionRatio
\* is Overlap / CardHeight.
Overlap(i, s) ==
  LET top == IF i * CardHeight > BandTop(s) THEN i * CardHeight ELSE BandTop(s)
      bot == IF (i + 1) * CardHeight < BandBottom(s)
               THEN (i + 1) * CardHeight ELSE BandBottom(s)
  IN  IF bot > top THEN bot - top ELSE 0

\* isIntersecting: the rectangles intersect or are edge-adjacent.
Intersecting(i, s) ==
  (i + 1) * CardHeight >= BandTop(s) /\ i * CardHeight <= BandBottom(s)

\* threshold option of the observer, in percent.
Thresholds ==
  IF listKind = "feed" THEN {0, 10, 25, 50, 75, 90, 100}
                       ELSE {0, 25, 50, 75, 100}

\* What the browser compares to decide whether to notify about card i: the
\* number of thresholds not above the ratio, and isIntersecting.
ThresholdState(i, s) ==
  <<Cardinality({t \in Thresholds : Overlap(i, s) * 100 >= t * CardHeight}),
    Intersecting(i, s)>>

\* The observer callback's loop over the entries: the entry with the highest
\* ratio above 0, the first one found on a tie, -1 if there is none.
MostVisibleIndexLastWins(entries, s) ==
  LET best[n \in 0 .. tLen] ==
        IF n = 0 THEN -1
        ELSE IF /\ (n - 1) \in entries
                /\ Overlap(n - 1, s) > 0
                /\ Overlap(n - 1, s) >=
                     (IF best[n - 1] = -1 THEN 0 ELSE Overlap(best[n - 1], s))
          THEN n - 1
          ELSE best[n - 1]
  IN  best[tLen]

MostVisibleIndex(entries, s) ==
  LET best[n \in 0 .. tLen] ==
        IF n = 0 THEN -1
        ELSE IF /\ (n - 1) \in entries
                /\ Overlap(n - 1, s) >
                     (IF best[n - 1] = -1 THEN 0 ELSE Overlap(best[n - 1], s))
          THEN n - 1
          ELSE best[n - 1]
  IN  best[tLen]

TrackerEffects == <<Effect(0, "observer"), Effect(0, "scroll")>>

\* cancelAnimationFrame(rafId): rafId names the callback this effect asked
\* for last, which is cancelled if it has not run yet.
CancelAnimationFrameStale(n) == n

CancelAnimationFrame(n) == IF n > 0 THEN n - 1 ELSE 0

\* The estimator effects that do something when a list of n items renders:
\* both return at once when the list is empty.
EffectsOfListAlways(n) == TrackerEffects

EffectsOfList(n) == IF n > 0 THEN TrackerEffects ELSE << >>

\* The state after the items have been loaded and rendered with index 0; the
\* two effects that depend on the items are about to run.
InitTracker ==
  /\ NoAssembly
  /\ listKind \in {"feed", "favorites"}
  /\ tLen \in 0 .. NumItems
  /\ scrollTop = 0
  /\ raf = 0
  /\ ioSeen = << >>
  /\ queued = {}
  /\ scrollsLeft = MaxScrolls
  /\ NoFavorites
  /\ NoApp
  /\ mounted = TRUE
  /\ activeIndex = 0
  /\ pending = EffectsOfList(tLen)
  /\ itemVoice = [i \in Cards |-> FALSE]
  /\ itemVideo = [i \in Cards |-> FALSE]
  /\ gesture = FALSE
  /\ inView = 0
  /\ card = [i \in Cards |-> InitCard(i)]
  /\ video = [i \in Cards |-> InitVideo]
  /\ turn = Turn("mount", 0, 0)
  /\ dispatched = {}

\* The intersection-observer effect, re-run because the index (or the items)
\* changed: the old observer is disconnected, a new one observes every card
\* (none has been notified yet), and 'Set initial visible item' queues
\* setVisibleItemIndex(0).
ObserverEffect ==
  /\ pending # << >>
  /\ Head(pending).e = "observer"
  /\ ioSeen' = [i \in Items |-> <<-1, FALSE>>]
  /\ queued' = {0}
  /\ pending' = Tail(pending)
  /\ UNCHANGED <<listKind, cardOnlyVars, activeIndex, tLen, scrollTop, raf,
                 scrollsLeft>>

\* The index a call of handleScroll made with the rendered index idx asks for.
HandleScroll(idx, s) ==
  IF ClosestIndex(s) >= 0 /\ ClosestIndex(s) # idx
    THEN {ClosestIndex(s)}
    ELSE {}

\* The scroll effect, re-run for the same reason: the cleanup cancels the
\* animation frame, the new effect calls handleScroll() at once. It is the
\* last effect of the flush: React then applies the queued updates (the last
\* one wins) and, if the index changed, renders again and re-runs both effects.
ScrollEffect ==
  /\ pending # << >>
  /\ Head(pending).e = "scroll"
  /\ raf' = CancelAnimationFrame(raf)
  /\ LET asked == HandleScroll(activeIndex, scrollTop)
         final == IF asked # {} THEN asked ELSE queued
     IN  IF final # {} /\ final # {activeIndex}
           THEN /\ activeIndex' = CHOOSE k \in final : TRUE
                /\ pending' = TrackerEffects
           ELSE /\ activeIndex' = activeIndex
                /\ pending' = Tail(pending)
  /\ queued' = {}
  /\ UNCHANGED <<listKind, cardOnlyVars, tLen, scrollTop, ioSeen, scrollsLeft>>

\* A 'scroll' event: the container is at a new position and
\* optimizedScrollHandler replaces the pending animation frame.
ScrollEvent ==
  /\ pending = << >>
  /\ tLen > 0
  /\ scrollsLeft > 0
  /\ \E s \in ScrollPositions \ {scrollTop} : scrollTop' = s
  /\ raf' = CancelAnimationFrame(raf) + 1
  /\ scrollsLeft' = scrollsLeft - 1
  /\ UNCHANGED <<listKind, cardOnlyVars, activeIndex, pending, tLen, ioSeen,
                 queued>>

\* Publishing an index from a callback: the list renders again and the
\* effects that depend on the index are re-run.
SetVisibleIndex(asked) ==
  IF asked # {}
    THEN /\ activeIndex' = CHOOSE k \in asked : TRUE
         /\ pending' = TrackerEffects
    ELSE UNCHANGED <<activeIndex, pending>>

\* The animation frame runs handleScroll.
RafCallback ==
  /\ pending = << >>
  /\ raf > 0
  /\ raf' = raf - 1
  /\ SetVisibleIndex(HandleScroll(activeIndex, scrollTop))
  /\ UNCHANGED <<listKind, cardOnlyVars, tLen, scrollTop, ioSeen, queued,
                 scrollsLeft>>

\* The cards the observer has to notify about.
Changed == {i \in Items : ioSeen[i] # ThresholdState(i, scrollTop)}

\* The observer callback, with one entry per card whose threshold state
\* changed since it was last notified (every card the first time).
IoCallback ==
  /\ pending = << >>
  /\ ioSeen # << >>
  /\ Changed # {}
  /\ ioSeen' = [i \in Items |-> ThresholdState(i, scrollTop)]
  /\ LET most == MostVisibleIndex(Changed, scrollTop)
     IN  SetVisibleIndex(IF most >= 0 /\ most # activeIndex
                           THEN {most} ELSE {})
  /\ UNCHANGED <<listKind, cardOnlyVars, tLen, scrollTop, raf, queued,
                 scrollsLeft>>

NextTracker ==
  \/ ObserverEffect
  \/ ScrollEffect
  \/ ScrollEvent
  \/ RafCallback
  \/ IoCallback

\* ------------------------------------------ FavoritesView: removals
\* favoritesService.removeFavoriteById(id) / removeFavorite(title,
\* ingredients) followed by getFavorites(): the list of n records without
\* the one that was named.
RemoveFavoriteById(n) == n - 1

\* 'Adjust visible index if needed': nothing for an empty list; the new last
\* position when the last position was the visible one; else no change.
IndexAfterRemove(idx, currentLength, updatedLength) ==
  IF updatedLength = 0 THEN idx
  ELSE IF idx >= currentLength - 1
    THEN (IF updatedLength - 1 > 0 THEN updatedLength - 1 ELSE 0)
  ELSE idx

\* The scroll positions the container can have once a list of n cards has
\* been laid out without card k: the old position, or the old position moved
\* up by one card when the removed card lay above it and the browser anchors
\* the scroll position; in both cases no further than the new last card.
ScrollAfterLayout(s, k, n) ==
  LET most == IF n > 0 THEN (n - 1) * CardHeight ELSE 0
      clamp(x) == IF x > most THEN most ELSE IF x < 0 THEN 0 ELSE x
  IN  {clamp(s)}
        \cup (IF (k + 1) * CardHeight <= s THEN {clamp(s - CardHeight)}
                                           ELSE {})

\* The list renders again without card k. Both estimator effects depend on
\* favorites.length: their cleanups run, and they run again unless the list
\* is empty.
RenderWithout(k, idx, op) ==
  /\ tLen' = RemoveFavoriteById(tLen)
  /\ activeIndex' = idx
  /\ scrollTop' \in ScrollAfterLayout(scrollTop, k, tLen')
  /\ pending' = EffectsOfList(tLen')
  /\ queued' = {}
  /\ IF tLen' = 0
       THEN raf' = CancelAnimationFrame(raf) /\ ioSeen' = << >>
       ELSE UNCHANGED <<raf, ioSeen>>
  /\ turn' = Turn(op, k, scrollsLeft)
  /\ UNCHANGED <<listKind, scrollsLeft, favVars, appVars, mounted, itemVoice,
                 itemVideo, gesture, inView, card, video, dispatched,
                 assemblyVars>>

\* The step removes the card at the last position while it is the visible
\* one.
RemovalKind(k) ==
  IF k = activeIndex /\ k = tLen - 1 THEN "removeLast" ELSE "remove"

\* handleRemoveFavorite(favorite.id) of the 'Remove' button over card k. A
\* click is handled between two renders, also while the effects of the last
\* render are still due; those effects are the ones that re-run.
HandleRemoveFavorite(k) ==
  /\ listKind = "favorites"
  /\ pending \in {<< >>, TrackerEffects}
  /\ k \in Items
  /\ RenderWithout(k,
                   IndexAfterRemove(activeIndex, tLen,
                                    RemoveFavoriteById(tLen)),
                   RemovalKind(k))

\* The heart of card k, which shows a favorite: removeFavorite, then
\* onFavoriteChange = loadFavorites, which sets the list and nothing else.
HeartRemoveFavorite(k) ==
  /\ listKind = "favorites"
  /\ pending \in {<< >>, TrackerEffects}
  /\ k \in Items
  /\ RenderWithout(k, activeIndex, RemovalKind(k))

\* The favorites have been loaded and rendered with index 0.
InitRemoval ==
  /\ InitTracker
  /\ listKind = "favorites"
  /\ tLen > 0

NextRemoval ==
  \/ NextTracker
  \/ \E k \in 0 .. (NumItems - 1) : HandleRemoveFavorite(k)
  \/ \E k \in 0 .. (NumItems - 1) : HeartRemoveFavorite(k)

\* ------------------------------------------------- RecipeScroller
\* A piece of media is named by the field of the plan it was read from and
\* the key it was read under; NoMedia stands for an empty video list, an
\* undefined storyboard, an undefined voiceover URL.
Media(field, key) == [from |-> field, key |-> key]

NoMedia == Media("none", -1)

\* What a video-list entry of the plan can be: absent, an empty array, an
\* array of URL strings, an array without any string.
VideoLists == {"missing", "empty", "urls", "other"}

\* recipeVideoArray / plan.videoUrls is an array with length > 0, and what
\* filter(typeof url === 'string') leaves of it.
Usable(list) == list \in {"urls", "other"}

Filtered(list, media) == IF list = "urls" THEN media ELSE NoMedia

\* The props RecipeScroller computes for the card of recipes[index], and the
\* voiceover the card looks up with the recipeIndex it was given (none: 0).
ScrollerVideoUrlsLegacyForAll(index) ==
  IF Usable(plan.recipeVideos[index])
    THEN Filtered(plan.recipeVideos[index], Media("recipeVideos", index))
  ELSE IF Usable(plan.videoUrls)
    THEN Filtered(plan.videoUrls, Media("videoUrls", 0))
  ELSE NoMedia

ScrollerVideoUrls(index) ==
  IF Usable(plan.recipeVideos[index])
    THEN Filtered(plan.recipeVideos[index], Media("recipeVideos", index))
  ELSE IF index = 0 /\ Usable(plan.videoUrls)
    THEN Filtered(plan.videoUrls, Media("videoUrls", 0))
  ELSE NoMedia

ScrollerStoryboard(index) ==
  IF plan.recipeStoryboards[index] THEN Media("recipeStoryboards", index)
  ELSE IF index = 0 /\ plan.storyboard THEN Media("storyboard", 0)
  ELSE NoMedia

CardVoiceoverUrl(recipeIndex) ==
  IF plan.recipeVoiceovers[recipeIndex]
    THEN Media("recipeVoiceovers", recipeIndex)
    ELSE NoMedia

\* hasVideo = videoUrls.length > 0 decides between the video element and the
\* gradient placeholder.
ShowsGradient(c) == c.videoUrls = NoMedia

ScrollerCard(index) ==
  [videoUrls |-> ScrollerVideoUrls(index),
   storyboard |-> ScrollerStoryboard(index),
   voiceoverUrl |-> CardVoiceoverUrl(0)]

\* A plan with one recipe per card: every per-recipe entry may be there or
\* not, and so may the legacy fields of the first recipe.
InitScroller ==
  /\ plan \in [recipeVideos : [Cards -> VideoLists],
                videoUrls : VideoLists,
                recipeStoryboards : [Cards -> BOOLEAN],
                storyboard : BOOLEAN,
                recipeVoiceovers : [Cards -> BOOLEAN]]
  /\ rendered = << >>
  /\ NoTracker
  /\ listKind = "scroller"
  /\ itemVoice = plan.recipeVoiceovers
  /\ itemVideo = [i \in Cards |-> ScrollerVideoUrls(i) # NoMedia]
  /\ gesture = FALSE
  /\ NoFavorites
  /\ NoApp
  /\ mounted = TRUE
  /\ activeIndex = 0
  /\ inView = 0
  /\ card = [i \in Cards |-> InitCard(i)]
  /\ video = [i \in Cards |-> InitVideo]
  /\ pending = << >>
  /\ turn = Turn("mount", 0, 0)
  /\ dispatched = {}

\* RecipeScroller renders the plan: plan.recipes.map(...)
RenderScroller ==
  /\ rendered = << >>
  /\ rendered' = [i \in Cards |-> ScrollerCard(i)]
  /\ UNCHANGED <<listKind, mounted, itemVoice, itemVideo, trackerVars, plan,
                 favVars, appVars, gesture,
                 activeIndex, inView, card, video, pending, turn, dispatched>>

NextScroller == RenderScroller

\* ------------------------------------------------- favorites and likes
\* The recipes the cards may show, as (title, ingredients) keys; two cards
\* of a list may show the same recipe.
Keys == 0 .. (NumKeys - 1)

\* Session provider: isAuthenticated().
IsAuthenticated == session

\* Favorites store: isFavorite(title, ingredients), add(...), remove(...).
IsFavorite(store, k) == k \in store
AddFavorite(store, k) == store \cup {k}
RemoveFavorite(store, k) == store \ {k}

\* Feed store: toggleLike(id).
ToggleLike(ids, f) == IF f \in ids THEN ids \ {f} ELSE ids \cup {f}

\* The store call of the favorite button for a card whose flag is
\* isFavorited: removeFavorite when the flag is set, addFavorite otherwise.
FavoriteStoreAddOnly(store, k, isFavorited) ==
  IF isFavorited THEN store ELSE AddFavorite(store, k)

FavoriteStoreCall(store, k, isFavorited) ==
  IF isFavorited THEN RemoveFavorite(store, k) ELSE AddFavorite(store, k)

\* What a click that finds no authenticated session does to the card.
UnauthenticatedClickToggles(c) ==
  [c EXCEPT !.showLoginPrompt = TRUE, !.isFavorited = ~@]

UnauthenticatedClick(c) == [c EXCEPT !.showLoginPrompt = TRUE]

\* 'Check authentication and load user on mount': the count is read from the
\* store when a user is signed in, and is 0 otherwise.
FavoriteCountOnMount(currentUser, store) ==
  IF currentUser THEN Cardinality(store) ELSE 0

\* App.handleFavoriteChange, which only FavoritesView hands down to the
\* cards: the count is read again if a user is signed in.
HandleFavoriteChange(count, store) ==
  IF listKind = "favorites" /\ user THEN Cardinality(store) ELSE count

\* The list has mounted its cards: the 'Check if recipe is favorited' effect
\* of every card has read the store.
InitFavorites ==
  /\ NoTracker
  /\ NoAssembly
  /\ NoApp
  /\ listKind \in ListKinds
  /\ itemVoice = [i \in Cards |-> FALSE]
  /\ itemVideo = [i \in Cards |-> FALSE]
  /\ gesture = TRUE
  /\ mounted = TRUE
  /\ activeIndex = 0
  /\ inView = 0
  /\ card = [i \in Cards |-> InitCard(i)]
  /\ video = [i \in Cards |-> InitVideo]
  /\ pending = << >>
  /\ turn = Turn("mount", 0, 0)
  /\ dispatched = {}
  /\ session \in BOOLEAN
  /\ favStore \in SUBSET Keys
  /\ \E key \in [Cards -> Keys] :
       favCard = [i \in Cards |->
                   [key |-> key[i],
                    isFavorited |-> IsFavorite(favStore, key[i]),
                    showLoginPrompt |-> FALSE]]
  /\ isLoginModalOpen = FALSE
  /\ notified = 0
  /\ liked \in SUBSET Cards
  /\ user = session
  /\ favoriteCount = FavoriteCountOnMount(session, favStore)

favFrame ==
  <<listKind, mounted, itemVoice, itemVideo, trackerVars, assemblyVars,
    appVars, gesture, activeIndex, inView, card, video, pending, turn,
    dispatched>>

\* The favorite button of card i is clicked.
FavoriteClick(i) ==
  /\ notified < MaxToggles
  /\ IF ~IsAuthenticated
       THEN /\ favCard' = [favCard EXCEPT ![i] = UnauthenticatedClick(@)]
            /\ UNCHANGED <<favStore, notified, favoriteCount>>
       ELSE /\ favStore' = FavoriteStoreCall(favStore, favCard[i].key,
                                             favCard[i].isFavorited)
            /\ favCard' = [favCard EXCEPT ![i].isFavorited = ~@]
            /\ notified' = notified + 1
            /\ favoriteCount' = HandleFavoriteChange(favoriteCount, favStore')
  /\ UNCHANGED <<session, user, isLoginModalOpen, liked, favFrame>>

\* 'Cancel' of the login prompt of card i.
PromptCancel(i) ==
  /\ favCard[i].showLoginPrompt
  /\ favCard' = [favCard EXCEPT ![i].showLoginPrompt = FALSE]
  /\ UNCHANGED <<session, user, favoriteCount, favStore, isLoginModalOpen,
                 notified, liked, favFrame>>

\* 'Sign In' of the login prompt of card i: openLoginModal is dispatched and
\* App's handleOpenLogin opens the modal.
PromptSignIn(i) ==
  /\ favCard[i].showLoginPrompt
  /\ favCard' = [favCard EXCEPT ![i].showLoginPrompt = FALSE]
  /\ isLoginModalOpen' = TRUE
  /\ UNCHANGED <<session, user, favoriteCount, favStore, notified, liked,
                 favFrame>>

\* FeedView.handleLike for feed item f.
HandleLike(f) ==
  /\ listKind = "feed"
  /\ IF ~IsAuthenticated
       THEN /\ isLoginModalOpen' = TRUE
            /\ UNCHANGED liked
       ELSE /\ liked' = ToggleLike(liked, f)
            /\ UNCHANGED isLoginModalOpen
  /\ UNCHANGED <<session, user, favoriteCount, favStore, favCard, notified,
                 favFrame>>

\* App.handleLogin: the login modal reports a signed-in user.
HandleLogin ==
  /\ isLoginModalOpen
  /\ session' = TRUE
  /\ user' = TRUE
  /\ favoriteCount' = Cardinality(favStore)
  /\ isLoginModalOpen' = FALSE
  /\ UNCHANGED <<favStore, favCard, notified, liked, favFrame>>

\* onClose of the login modal.
LoginModalClose ==
  /\ isLoginModalOpen
  /\ isLoginModalOpen' = FALSE
  /\ UNCHANGED <<session, user, favoriteCount, favStore, favCard, notified,
                 liked, favFrame>>

\* 'If on favorites page, go back to upload'
AppStateAfterLogout(a) == IF a = "FAVORITES" THEN "UPLOADING" ELSE a

\* App.handleLogout, of the 'Sign Out' button, which only the upload page
\* renders, and only for a signed-in user.
HandleLogout ==
  /\ user
  /\ ~isLoginModalOpen
  /\ appState = "UPLOADING"
  /\ session' = FALSE
  /\ user' = FALSE
  /\ favoriteCount' = 0
  /\ appState' = AppStateAfterLogout(appState)
  /\ UNCHANGED <<favStore, favCard, isLoginModalOpen, notified, liked,
                 culinaryPlan, upload, listKind, mounted, itemVoice,
                 itemVideo, trackerVars, assemblyVars, gesture, activeIndex,
                 inView, card, video, pending, turn, dispatched>>

NextFavorites ==
  \/ \E i \in Cards : FavoriteClick(i)
  \/ \E i \in Cards : PromptCancel(i)
  \/ \E i \in Cards : PromptSignIn(i)
  \/ \E f \in Cards : HandleLike(f)
  \/ HandleLogin
  \/ LoginModalClose
  \/ HandleLogout

\* ------------------------------------------------- App.handleImageUpload
Recipes(n) == 0 .. (n - 1)

\* The recipes whose voiceover is synthesised after video generation: those
\* with a generated storyboard, and recipe 0 through the plan's storyboard.
ScriptsAfterVideos(storyboards) == storyboards \cup {0}

\* appState when the try / catch / finally around video generation is left.
StateAfterVideosRethrown(outcome) ==
  IF outcome = "thrown" THEN "ERROR" ELSE "DISPLAYING_RECIPES"

StateAfterVideos(outcome) == "DISPLAYING_RECIPES"

\* { ...plan, recipeVideos, recipeVoiceovers }
UpdatedPlan(p, videos, voiceovers) ==
  [p EXCEPT !.videos = videos, !.voiceovers = voiceovers]

\* The App shows the uploader.
InitApp ==
  /\ NoTracker
  /\ NoAssembly
  /\ NoFavorites
  /\ NoApp
  /\ listKind = "scroller"
  /\ itemVoice = [i \in Cards |-> FALSE]
  /\ itemVideo = [i \in Cards |-> FALSE]
  /\ gesture = TRUE
  /\ mounted = FALSE
  /\ activeIndex = 0
  /\ inView = 0
  /\ card = [i \in Cards |-> InitCard(i)]
  /\ video = [i \in Cards |-> InitVideo]
  /\ pending = << >>
  /\ turn = Turn("mount", 0, 0)
  /\ dispatched = {}

appFrame ==
  <<listKind, mounted, itemVoice, itemVideo, trackerVars, assemblyVars,
    favVars, gesture, activeIndex, inView, card, video, pending, turn,
    dispatched>>

\* handleImageUpload(file, testMode) up to the first await.
HandleImageUpload(testMode) ==
  /\ appState = "UPLOADING"
  /\ upload.pc = "idle"
  /\ appState' = "GENERATING"
  /\ upload' = [NoUpload EXCEPT !.pc = "plan", !.testMode = testMode]
  /\ UNCHANGED <<culinaryPlan, appFrame>>

\* generateCulinaryPlan resolves with a plan of n recipes.
PlanResolved(n) ==
  /\ upload.pc = "plan"
  /\ culinaryPlan' = [present |-> TRUE, recipes |-> n, videos |-> {},
                      voiceovers |-> {}]
  /\ IF upload.testMode
       THEN /\ upload' = [upload EXCEPT !.pc = "voice", !.recipes = n,
                                        !.outcome = "skipped",
                                        !.scripts = Recipes(n)]
            /\ UNCHANGED appState
       ELSE /\ upload' = [upload EXCEPT !.pc = "videos", !.recipes = n]
            /\ appState' = "GENERATING_VIDEOS"
  /\ UNCHANGED appFrame

\* generateCulinaryPlan rejects: the outer catch.
PlanRejected ==
  /\ upload.pc = "plan"
  /\ appState' = "ERROR"
  /\ upload' = [upload EXCEPT !.pc = "idle", !.outcome = "planFailed"]
  /\ UNCHANGED <<culinaryPlan, appFrame>>

\* generateAllRecipeVideos resolves, with or without quotaExceeded.
VideosResolved ==
  /\ upload.pc = "videos"
  /\ \E videos, storyboards \in SUBSET Recipes(upload.recipes),
        quotaExceeded \in BOOLEAN :
       upload' = [upload EXCEPT
                    !.pc = "voice",
                    !.outcome = IF quotaExceeded THEN "quota" ELSE "success",
                    !.videos = videos,
                    !.scripts = ScriptsAfterVideos(storyboards)]
  /\ UNCHANGED <<appState, culinaryPlan, appFrame>>

\* generateAllRecipeVideos rejects: the inner catch.
VideosRejected ==
  /\ upload.pc = "videos"
  /\ upload' = [upload EXCEPT !.pc = "voice", !.outcome = "thrown",
                              !.videos = {}, !.scripts = {0}]
  /\ UNCHANGED <<appState, culinaryPlan, appFrame>>

\* The body of the voiceover loop for recipe u.i: no script and nothing to
\* do, or recipeVoiceovers[i] = url, or the catch that logs the failure; then
\* i++.
AfterSynthesisAborts(u, ok) ==
  IF u.i \notin u.scripts
    THEN [u EXCEPT !.i = @ + 1]
    ELSE IF ok
      THEN [u EXCEPT !.i = @ + 1, !.voiceovers = @ \cup {u.i}]
      ELSE [u EXCEPT !.i = u.recipes, !.failed = @ \cup {u.i}]

AfterSynthesis(u, ok) ==
  IF u.i \notin u.scripts
    THEN [u EXCEPT !.i = @ + 1]
    ELSE IF ok
      THEN [u EXCEPT !.i = @ + 1, !.voiceovers = @ \cup {u.i}]
      ELSE [u EXCEPT !.i = @ + 1, !.failed = @ \cup {u.i}]

\* One round of the voiceover loop: recipe i has no script, or
\* generateRecipeVoiceover resolves, or it rejects and the error is logged.
VoiceoverStep(ok) ==
  /\ upload.pc = "voice"
  /\ upload.i < upload.recipes
  /\ upload' = AfterSynthesis(upload, ok)
  /\ UNCHANGED <<appState, culinaryPlan, appFrame>>

\* After the loop: setCulinaryPlan(updatedPlan) and the state of the
\* 'finally' (or of the test-mode branch).
UploadDone ==
  /\ upload.pc = "voice"
  /\ upload.i = upload.recipes
  /\ culinaryPlan' = UpdatedPlan(culinaryPlan, upload.videos,
                                 upload.voiceovers)
  /\ appState' = IF upload.testMode
                   THEN "DISPLAYING_RECIPES"
                   ELSE StateAfterVideos(upload.outcome)
  /\ upload' = [upload EXCEPT !.pc = "idle"]
  /\ UNCHANGED appFrame

\* handleReset: 'Start Over' of the recipes, 'Try Again' of the error page.
HandleReset ==
  /\ appState \in {"DISPLAYING_RECIPES", "ERROR"}
  /\ appState' = "UPLOADING"
  /\ culinaryPlan' = NoPlan
  /\ upload' = NoUpload
  /\ UNCHANGED appFrame

\* ------------------------------------------------- App: navigation
\* The pages whose header has the favorites button and the sign-in button:
\* the upload page and the recipes of a plan.
HasHeader ==
  \/ appState = "UPLOADING"
  \/ appState = "DISPLAYING_RECIPES" /\ culinaryPlan.present

\* handleShowFavorites: without a user the login modal opens instead.
AppStateOnShowFavoritesAlways(u, a) == "FAVORITES"

AppStateOnShowFavorites(u, a) == IF u THEN "FAVORITES" ELSE a

navFrame ==
  <<culinaryPlan, upload, listKind, mounted, itemVoice, itemVideo,
    trackerVars, assemblyVars, gesture, activeIndex, inView, card, video,
    pending, turn, dispatched, session, favStore, favCard, notified, liked>>

HandleShowFavorites ==
  /\ HasHeader
  /\ appState' = AppStateOnShowFavorites(user, appState)
  /\ isLoginModalOpen' = IF user THEN isLoginModalOpen ELSE TRUE
  /\ UNCHANGED <<user, favoriteCount, navFrame>>

\* handleBackToHome: 'Home' of the recipes and onBack of FavoritesView.
HandleBackToHome ==
  /\ \/ appState = "FAVORITES"
     \/ appState = "DISPLAYING_RECIPES" /\ culinaryPlan.present
  /\ appState' = "UPLOADING"
  /\ UNCHANGED <<user, favoriteCount, isLoginModalOpen, navFrame>>

\* The 'Sign In' button, rendered while nobody is signed in.
SignInClick ==
  /\ HasHeader
  /\ ~user
  /\ ~isLoginModalOpen
  /\ isLoginModalOpen' = TRUE
  /\ UNCHANGED <<appState, user, favoriteCount, navFrame>>

\* The App has mounted: 'Check authentication and load user on mount' has
\* read the session and the store.
InitNav ==
  /\ NoTracker
  /\ NoAssembly
  /\ NoApp
  /\ session \in BOOLEAN
  /\ user = session
  /\ favStore \in SUBSET Keys
  /\ favoriteCount = FavoriteCountOnMount(session, favStore)
  /\ favCard = [i \in Cards |->
                  [key |-> 0, isFavorited |-> FALSE, showLoginPrompt |-> FALSE]]
  /\ isLoginModalOpen = FALSE
  /\ notified = 0
  /\ liked = {}
  /\ listKind = "scroller"
  /\ itemVoice = [i \in Cards |-> FALSE]
  /\ itemVideo = [i \in Cards |-> FALSE]
  /\ gesture = TRUE
  /\ mounted = FALSE
  /\ activeIndex = 0
  /\ inView = 0
  /\ card = [i \in Cards |-> InitCard(i)]
  /\ video = [i \in Cards |-> InitVideo]
  /\ pending = << >>
  /\ turn = Turn("mount", 0, 0)
  /\ dispatched = {}

NextApp ==
  \/ \E testMode \in BOOLEAN : HandleImageUpload(testMode)
  \/ \E n \in 1 .. MaxRecipes : PlanResolved(n)
  \/ PlanRejected
  \/ VideosResolved
  \/ VideosRejected
  \/ \E ok \in BOOLEAN : VoiceoverStep(ok)
  \/ UploadDone
  \/ HandleReset

vars == cardVars

Init == InitCards
Next == NextCards
Spec == Init /\ [][Next]_vars

SpecSync == InitSync /\ [][NextSync]_vars

SpecFavorites == InitFavorites /\ [][NextFavorites]_vars

SpecApp == InitApp /\ [][NextApp]_vars

NextNav ==
  \/ NextApp
  \/ HandleShowFavorites
  \/ HandleBackToHome
  \/ SignInClick
  \/ HandleLogin
  \/ LoginModalClose
  \/ HandleLogout

SpecNav == InitNav /\ [][NextNav]_vars

SpecUnmount == InitUnmount /\ [][NextUnmount]_vars

SpecSilent == InitSilent /\ [][NextSilent]_vars

SpecTracker == InitTracker /\ [][NextTracker]_vars

SpecScroller == InitScroller /\ [][NextScroller]_vars

SpecRemoval == InitRemoval /\ [][NextRemoval]_vars

\* As SpecTrackerFair: due effects and callbacks run; nothing forces the
\* user to scroll or to remove a favorite.
SpecRemovalFair ==
  /\ SpecRemoval
  /\ WF_vars(ObserverEffect)
  /\ WF_vars(ScrollEffect)
  /\ WF_vars(RafCallback)
  /\ WF_vars(IoCallback)

\* Effects, animation frames and observer notifications that are due are
\* run by the event loop; nothing forces the user to scroll.
SpecTrackerFair ==
  /\ SpecTracker
  /\ WF_vars(ObserverEffect)
  /\ WF_vars(ScrollEffect)
  /\ WF_vars(RafCallback)
  /\ WF_vars(IoCallback)

\* ================================================================ claims
Playing(i) == HasVoiceover(i) /\ ~card[i].paused

Stopped(i) == card[i].paused /\ card[i].pos = 0 /\ ~card[i].flag

\* The start sequence of card i has begun from position 0: the audio plays,
\* or its play was refused by the platform, or it waits for loadeddata/canplay.
StartedFromZero(i) ==
  /\ HasVoiceover(i)
  /\ card[i].pos = 0
  /\ IF card[i].ready >= 2
       THEN ~card[i].paused \/ ~gesture
       ELSE card[i].onceLoaded /\ card[i].onceCanPlay

\* C1: at every event-loop boundary at most one card's audio is playing.
C1_AtMostOnePlaying ==
  pending = << >> => Cardinality({i \in Cards : Playing(i)}) <= 1

\* C2: at the end of a card's stopAllRecipeAudio dispatch every other card that
\* has an audio element is paused at position 0 with its playing flag false.
C2_BroadcastStopsOthers ==
  \A i \in dispatched :
    \A j \in Cards \ {i} : HasVoiceover(j) => Stopped(j)

\* C3: at the end of the turn in which the index went from A to B, both items
\* carrying a voiceover, card A is paused at 0 with its flag cleared and card B
\* has begun its start sequence from position 0.
C3_Handoff ==
  (pending = << >> /\ turn.op = "publish"
     /\ itemVoice[turn.from] /\ itemVoice[turn.to])
  => (Stopped(turn.from) /\ StartedFromZero(turn.to))

\* C4: at the end of the turn that activated a card with video and voiceover,
\* the video position and the audio position of that card are both 0.
C4_RestartFromZero ==
  (pending = << >> /\ turn.op = "publish" /\ HasSync(turn.to))
  => (video[turn.to].time = 0 /\ card[turn.to].pos = 0)

\* C5: once scrolling has stopped, the active index eventually equals the
\* index of the card closest to the centre line and never changes again.
C5_Converges ==
  <>[](tLen > 0 => activeIndex = ClosestIndex(scrollTop))

\* C11: while a card is active with its audio and its video playing and
\* timeupdate events arriving one after another, no 2 seconds of video time go
\* by without the drift check running.
C11_DriftCheckEvery2s ==
  \A i \in Cards : video[i].run <= TimerDelay

\* The drift check of card i runs in this step on playing audio.
Checks(i) ==
  SyncTimeout(i) /\ ~card[i].paused /\ card[i].ready >= 2

\* C12: a drift check that finds the audio more than 1.0 s away from the
\* video position (modulo the audio duration) moves the audio to the position
\* expected for the video position of that moment, and otherwise leaves the
\* audio alone; the check after a check that moved the audio finds them at
\* most 1.0 s apart.
C12_DriftBound ==
  [][\A i \in Cards :
       Checks(i) =>
         /\ card'[i].pos =
              (IF Drift(card[i], video[i].time) > DriftLimit
                 THEN Expected(video[i].time) ELSE card[i].pos)
         /\ video[i].corrected =>
              Drift(card[i], video[i].time) <= DriftLimit]_vars

\* C12, the part about a single check: more than 1.0 s apart, the audio is
\* moved to the expected position; at most 1.0 s apart, it is left alone.
C12_SingleCheck ==
  [][\A i \in Cards :
       Checks(i) =>
         card'[i].pos =
           (IF Drift(card[i], video[i].time) > DriftLimit
              THEN Expected(video[i].time) ELSE card[i].pos)]_vars

\* A drift check has just moved the audio of the active card 0.
C12_Witness ==
  /\ Registered(0) /\ video[0].corrected
  /\ ~card[0].paused
  /\ card[0].pos = Expected(video[0].time)

\* C13: no step of the turn of a mute toggle (the handler and the effects it
\* re-runs) starts, pauses or seeks the audio of any card.
C13_MuteTouchesVolumeOnly ==
  [][turn'.op = "mute" =>
       \A j \in Cards :
         /\ card'[j].paused = card[j].paused
         /\ card'[j].pos = card[j].pos]_vars

\* C14: after the platform has rejected a play request of a card, the card
\* issues no second play request on its own: at most one request is rejected
\* between two activations or user clicks.
C14_NoAutomaticRetry ==
  \A i \in Cards : card[i].refused <= 1

\* C15: a card whose item has no voiceover URL never plays or is asked to
\* play, never has its playing flag set and never arms the resync timeout,
\* whether it has a video or not.
C15_SilentCard ==
  \A i \in Cards :
    ~itemVoice[i] =>
      /\ card[i].paused /\ ~card[i].flag /\ ~card[i].thenPending
      /\ card[i].refused = 0 /\ card[i].evq = << >> /\ card[i].pos = 0
      /\ video[i].timer = -1

\* Card 1, with a video and no voiceover, is active after an activation and
\* its video has just reported a time.
C15_Witness ==
  /\ ~itemVoice[1] /\ itemVideo[1]
  /\ activeIndex = 1 /\ card[1].isVisible
  /\ pending = << >>
  /\ turn.op = "timeupdate"
  /\ video[1].time > 0

\* C16: after the list has unmounted, no index is published and the audio
\* and the playing flag of no card change any more.
C16_NothingRunsAfterUnmount ==
  [][~mounted =>
       /\ activeIndex' = activeIndex
       /\ \A i \in Cards :
            /\ card'[i].paused = card[i].paused
            /\ card'[i].pos = card[i].pos
            /\ card'[i].flag = card[i].flag]_vars

\* C17: a card that is playing when it unmounts is paused at position 0 by
\* the unmount.
C17_StoppedOnUnmount ==
  [][(mounted /\ ~mounted') =>
       \A i \in Cards :
         ~card[i].paused => (card'[i].paused /\ card'[i].pos = 0)]_vars

\* C18: a favorite click or a feed like without an authenticated session
\* changes no favorite flag, calls neither store and notifies nobody; it only
\* surfaces a login prompt (showLoginPrompt of the card, or the login modal).
C18_NoSessionNoChange ==
  [][(~session /\ ((\E i \in Cards : FavoriteClick(i))
                   \/ (\E f \in Cards : HandleLike(f)))) =>
       /\ \A i \in Cards :
            /\ favCard'[i].isFavorited = favCard[i].isFavorited
            /\ favCard'[i].key = favCard[i].key
       /\ favStore' = favStore
       /\ liked' = liked
       /\ notified' = notified
       /\ session' = session
       /\ \/ \E i \in Cards : favCard'[i].showLoginPrompt
          \/ isLoginModalOpen']_vars

C18_Witness ==
  /\ ~session
  /\ notified = 0
  /\ \E i \in Cards : favCard[i].showLoginPrompt /\ favCard[i].isFavorited

C20_GenerationNeverFatal ==
  [][/\ (upload.pc \in {"videos", "voice"} /\ upload'.pc = "idle") =>
          /\ appState' = "DISPLAYING_RECIPES"
          /\ culinaryPlan'.present
          /\ culinaryPlan'.recipes = upload.recipes
          /\ culinaryPlan'.recipes >= 1
     /\ (upload.pc \in {"videos", "voice"}) => appState' # "ERROR"
     /\ (appState # "ERROR" /\ appState' = "ERROR") => upload.pc = "plan"]_vars

C20_Witness ==
  /\ appState = "DISPLAYING_RECIPES"
  /\ upload.pc = "idle"
  /\ upload.outcome = "thrown"
  /\ upload.failed = {0}
  /\ culinaryPlan.recipes = MaxRecipes

\* C21: the activation broadcast changes nothing in a card that is already
\* inactive (audio paused at position 0, flag false), and handling the same
\* broadcast twice leaves a card as handling it once does.
Inactive(c) == c.paused /\ c.pos = 0 /\ ~c.flag

C21_IdempotentDeactivation ==
  \A j \in Cards, x \in Cards :
    LET once == HandleStopAudio(j, x, card[j])
    IN  /\ HandleStopAudio(j, x, once) = once
        /\ Inactive(card[j]) => once = card[j]

\* A broadcast of another index has just been handled by a card with audio
\* that the play/pause effect had stopped before, and by a card that was
\* still playing.
C21_Witness ==
  /\ dispatched # {}
  /\ \E j \in Cards :
       /\ HasVoiceover(j)
       /\ \A i \in dispatched : RecipeIndex(i) # RecipeIndex(j)
       /\ Inactive(card[j])
       /\ card[j].evq # << >>

C23_OnlyAcceptedPublishes ==
  [][activeIndex' # activeIndex =>
       \/ IoCallback
       \/ RafCallback
       \/ ScrollEffect /\ HandleScroll(activeIndex, scrollTop) = {activeIndex'}
    ]_vars

\* C24: for every batch of entries the observer callback proposes the entry
\* with the highest intersection ratio, the lowest index among equals, and
\* proposes nothing when no entry has a ratio above 0.
C24_IntersectionEstimator ==
  \A entries \in SUBSET Items :
    LET m == MostVisibleIndex(entries, scrollTop)
    IN  IF \E i \in entries : Overlap(i, scrollTop) > 0
          THEN /\ m \in entries
               /\ \A i \in entries :
                    /\ Overlap(i, scrollTop) <= Overlap(m, scrollTop)
                    /\ Overlap(i, scrollTop) = Overlap(m, scrollTop) => m <= i
          ELSE m = -1

\* The observer has just reported a batch in which two cards have the same
\* ratio above 0, and the lower one is the index now.
C24_Witness ==
  /\ ioSeen # << >>
  /\ Changed = {}
  /\ pending = << >>
  /\ \E i, j \in Items :
       /\ i < j
       /\ Overlap(i, scrollTop) > 0
       /\ Overlap(i, scrollTop) = Overlap(j, scrollTop)
       /\ activeIndex = i

\* C25: a scroll computation proposes, among the cards whose element is
\* mounted, the one whose centre is nearest to the centre line of the
\* container, the lowest index among equals; other cards are ignored.
C25_ScrollEstimator ==
  \A refs \in SUBSET Items :
    LET m == ClosestAmong(refs, scrollTop)
    IN  IF refs = {}
          THEN m = -1
          ELSE /\ m \in refs
               /\ \A i \in refs :
                    /\ DistanceFromCenter(m, scrollTop)
                         <= DistanceFromCenter(i, scrollTop)
                    /\ DistanceFromCenter(m, scrollTop)
                         = DistanceFromCenter(i, scrollTop) => m <= i

\* A scroll computation has just published the lower one of two cards that
\* are equally near, half-way between them.
C25_Witness ==
  /\ pending = TrackerEffects
  /\ raf = 0
  /\ scrollsLeft < MaxScrolls
  /\ \E i, j \in Items :
       /\ i < j
       /\ i > 0
       /\ DistanceFromCenter(i, scrollTop) = DistanceFromCenter(j, scrollTop)
       /\ activeIndex = i

\* C26: however many scroll events arrive between two animation frames, at
\* most one scroll computation is pending, and the computation an animation
\* frame runs leaves none pending.
C26_ScrollCoalescing ==
  /\ [](raf <= 1)
  /\ [][RafCallback => raf' = 0]_vars

\* Every scroll event of the run has arrived and one computation is pending.
C26_Witness ==
  /\ raf = 1
  /\ scrollsLeft = 0
  /\ MaxScrolls >= 2

\* C27: in a list of exactly one card that card is the active one from
\* mount on: the index is 0 in every state, and at no scroll offset does an
\* estimator propose anything but index 0.
C27_SingleCardActive ==
  tLen = 1 =>
    /\ activeIndex = 0
    /\ IsVisibleProp(activeIndex, 0)
    /\ \A s \in 0 .. CardHeight :
         /\ HandleScroll(activeIndex, s) = {}
         /\ \A entries \in SUBSET Items :
              MostVisibleIndex(entries, s) \in {-1, 0}

\* The observer has reported the one card of the list and both effects have
\* run.
C27_Witness ==
  /\ tLen = 1
  /\ ioSeen # << >>
  /\ Changed = {}
  /\ pending = << >>
  /\ activeIndex = 0

\* A card dispatches in exactly the steps in which its broadcast effect runs
\* after a publish that made it the active card.
C28_OncePerActivation ==
  [][\A i \in Cards :
       (i \in dispatched') <=>
         /\ BroadcastEffect
         /\ Head(pending).c = i
         /\ turn.op = "publish"
         /\ turn.to = i
         /\ turn.from # i]_vars

\* C28: a card broadcasts once per transition from inactive to active and at
\* no other time (not on deactivation, not on a mute or play toggle, not
\* while it stays active), and the broadcast carries the card's own index.
C28_OneBroadcastOwnIndex ==
  [][\A i \in Cards :
       /\ (i \in dispatched') <=>
            /\ BroadcastEffect
            /\ Head(pending).c = i
            /\ turn.op = "publish"
            /\ turn.to = i
            /\ turn.from # i
       /\ (i \in dispatched') => RecipeIndex(i) = i]_vars

\* A step of a handler, an effect or a media event of card i.
Handler(i) ==
  \/ ToggleVoiceover(i)
  \/ ToggleVoiceoverMute(i)
  \/ AudioLoadedData(i)
  \/ AudioCanPlay(i)
  \/ PlayResolved(i)
  \/ DeliverEvent(i)
  \/ AudioProgress(i)
  \/ VideoTimeUpdate(i)
  \/ SyncTimeout(i)
  \/ /\ pending # << >>
     /\ Head(pending).c = i
     /\ PlayPauseEffect \/ SyncEffect

\* C29: a step of card i leaves the audio, the video and the flags of every
\* other card as they are; another card changes only in the broadcast step,
\* and then by its own handleStopAudio.
C29_ExclusiveOwnership ==
  [][/\ \A i \in Cards :
          Handler(i) =>
            \A j \in Cards \ {i} :
              card'[j] = card[j] /\ video'[j] = video[j]
     /\ BroadcastEffect =>
          /\ video' = video
          /\ \A j \in Cards :
               card'[j] \in {card[j],
                             HandleStopAudio(j, RecipeIndex(Head(pending).c),
                                             card[j])}]_vars

\* Card 1 has just broadcast its activation and the audio of card 0 has been
\* paused, while the video of card 0 has been handled by its synchroniser.
C29_Witness ==
  /\ dispatched = {1}
  /\ card[0].paused
  /\ card[0].evq # << >>
  /\ card[0].evq[Len(card[0].evq)] = "pause"
  /\ video[0].time > 0

\* C30: an inactive card holds no last video time and no armed timeout; the
\* first time the video reports after an activation, if under 0.3 s, leaves
\* the audio alone; and a timeout that expires was armed by a time reported
\* in the current activation of a visible card.
C30_SyncStateDiscarded ==
  /\ [](pending = << >> =>
          \A i \in Cards :
            ~card[i].isVisible =>
              video[i].last = 0 /\ video[i].timer = -1)
  /\ [][\A i \in Cards :
          /\ (/\ VideoTimeUpdate(i)
              /\ Registered(i)
              /\ ~video[i].prevActive
              /\ video'[i].time < LoopWindow)
             => card'[i] = card[i]
          /\ SyncTimeout(i) =>
               card[i].isVisible /\ video[i].prevActive]_vars

\* Card 0 is active again after its video went on to its last 0.3 s while
\* the card was inactive; no time has been reported to the new handler and
\* the audio plays somewhere past its start.
C30_Witness ==
  /\ pending = << >>
  /\ Registered(0)
  /\ ~video[0].prevActive
  /\ video[0].time > VideoDuration - LoopWindow
  /\ video[0].last = 0
  /\ video[0].timer = -1
  /\ ~card[0].muted
  /\ ~card[0].paused
  /\ card[0].pos > 0

\* C31: toggleVoiceover of card i pauses the audio of card i when its playing
\* flag is set and makes it play otherwise; the position, the mute flag (and
\* with it the volume), the playing flag and the ready state stay, as do the
\* active index, the videos and every other card, and nothing is broadcast.
C31_TogglePlayOnly ==
  [][\A i \in Cards :
       ToggleVoiceover(i) =>
         /\ card'[i].paused = card[i].flag
         /\ card'[i].pos = card[i].pos
         /\ card'[i].muted = card[i].muted
         /\ card'[i].flag = card[i].flag
         /\ card'[i].ready = card[i].ready
         /\ card'[i].isVisible = card[i].isVisible
         /\ card'[i].prevVisible = card[i].prevVisible
         /\ activeIndex' = activeIndex
         /\ inView' = inView
         /\ pending' = << >>
         /\ dispatched' = {}
         /\ \A j \in Cards \ {i} :
              card'[j] = card[j] /\ video'[j] = video[j]]_vars

\* The user has paused the voiceover of the active card 0 in mid-play: the
\* audio is paused where it was, and the 'pause' event is still queued.
C31_Witness ==
  /\ card[0].isVisible
  /\ card[0].paused
  /\ card[0].pos > 0
  /\ card[0].flag
  /\ card[0].evq # << >>
  /\ card[0].evq[Len(card[0].evq)] = "pause"

\* The audio of the active card i is paused in mid-play: only a click on the
\* play/pause button leaves it so (every other pause rewinds it to 0).
ManuallyPaused(i) ==
  /\ card[i].isVisible
  /\ card[i].paused
  /\ card[i].pos > 0

\* A step of card i that is neither a click on its play/pause button nor part
\* of an activation or deactivation: a reported video time, the timeout
\* callback, a click on the mute button and the effects that click re-runs.
AutomaticStep(i) ==
  \/ VideoTimeUpdate(i)
  \/ SyncTimeout(i)
  \/ ToggleVoiceoverMute(i)
  \/ /\ turn.op = "mute"
     /\ pending # << >>
     /\ Head(pending).c = i
     /\ PlayPauseEffect \/ SyncEffect

\* C32: while the audio of the active card is paused by the user, no
\* automatic step of that card (video time report, loop wraparound, drift
\* check, mute or unmute) makes it play again.
C32_ManualPauseStays ==
  [][\A i \in Cards :
       (ManuallyPaused(i) /\ AutomaticStep(i)) => card'[i].paused]_vars

\* The recipes below n that have a voiceover script.
Scripted(n) == {j \in upload.scripts : j < n}

\* C33: the voiceover loop takes the recipes in order, one per round; while
\* it runs, the entries made so far are those of the scripted recipes already
\* visited whose synthesis did not fail; and the plan that is stored has an
\* entry for exactly the scripted recipes whose synthesis did not fail.
C33_VoiceoverFailuresIsolated ==
  /\ [](upload.pc = "voice" =>
          /\ upload.failed \subseteq Scripted(upload.i)
          /\ upload.voiceovers = Scripted(upload.i) \ upload.failed)
  /\ [][(\E ok \in BOOLEAN : VoiceoverStep(ok)) =>
          /\ upload'.i = upload.i + 1
          /\ (upload'.voiceovers \cup upload'.failed)
               \ (upload.voiceovers \cup upload.failed)
             \subseteq {upload.i}]_vars
  /\ [][UploadDone =>
          /\ culinaryPlan'.voiceovers
               = Scripted(upload.recipes) \ upload.failed
          /\ upload.failed \cap culinaryPlan'.voiceovers = {}]_vars

\* The recipes are shown; the synthesis of one recipe failed and a later
\* recipe has its voiceover.
C33_Witness ==
  /\ appState = "DISPLAYING_RECIPES"
  /\ culinaryPlan.present
  /\ \E i \in upload.failed, j \in culinaryPlan.voiceovers : i < j

\* C34: the card of recipes[i] gets the string entries of recipeVideos[i]
\* when that is a non-empty array; failing that, card 0 alone gets the string
\* entries of the plan's videoUrls when that is a non-empty array; failing
\* both, the list is empty and the gradient is shown. Its storyboard is
\* recipeStoryboards[i] when present, else the plan's storyboard for card 0
\* and none for the other cards.
C34_MissingMediaPolicy ==
  rendered # << >> =>
    \A i \in Cards :
      LET own == plan.recipeVideos[i]
          legacy == plan.videoUrls
          shown == rendered[i].videoUrls
      IN
      /\ own \in {"urls", "other"} =>
           shown = (IF own = "urls" THEN Media("recipeVideos", i)
                                   ELSE NoMedia)
      /\ (own \in {"missing", "empty"} /\ i = 0
             /\ legacy \in {"urls", "other"}) =>
           shown = (IF legacy = "urls" THEN Media("videoUrls", 0)
                                      ELSE NoMedia)
      /\ (own \in {"missing", "empty"}
             /\ (i # 0 \/ legacy \in {"missing", "empty"})) =>
           shown = NoMedia /\ ShowsGradient(rendered[i])
      /\ i # 0 => shown.from # "videoUrls"
      /\ plan.recipeStoryboards[i] =>
           rendered[i].storyboard = Media("recipeStoryboards", i)
      /\ (~plan.recipeStoryboards[i] /\ i = 0) =>
           rendered[i].storyboard =
             (IF plan.storyboard THEN Media("storyboard", 0) ELSE NoMedia)
      /\ (~plan.recipeStoryboards[i] /\ i # 0) =>
           rendered[i].storyboard = NoMedia

\* A plan with legacy videos and a legacy storyboard and no per-recipe
\* entries has been rendered: card 0 shows the legacy media, card 1 the
\* gradient and no storyboard.
C34_Witness ==
  /\ rendered # << >>
  /\ plan.videoUrls = "urls"
  /\ plan.storyboard
  /\ \A i \in Cards :
       plan.recipeVideos[i] = "missing" /\ ~plan.recipeStoryboards[i]
  /\ rendered[0].videoUrls = Media("videoUrls", 0)
  /\ rendered[0].storyboard = Media("storyboard", 0)
  /\ ShowsGradient(rendered[1])
  /\ rendered[1].storyboard = NoMedia

\* C35: a 'canplay' event starts the audio of a card only if the card is
\* active and not muted when the event fires.
C35_CanPlayOnlyWhenActive ==
  [][\A i \in Cards :
       (AudioCanPlay(i) /\ card[i].paused /\ ~card'[i].paused)
       => (card[i].isVisible /\ ~card[i].muted)]_vars

\* C35, the part about inactive cards: a 'canplay' event delivered to a card
\* that is inactive at that moment leaves its audio paused.
C35_InactiveCanPlayNeverStarts ==
  [][\A i \in Cards :
       (AudioCanPlay(i) /\ ~card[i].isVisible /\ card[i].paused)
       => card'[i].paused]_vars

\* Every media event and promise callback of card i has been handled.
Settled(i) ==
  /\ pending = << >>
  /\ card[i].evq = << >>
  /\ ~card[i].thenPending

\* C36: once the queued media events and promise callbacks of a card have
\* been handled, its isVoiceoverPlaying flag is true exactly when its audio is
\* not paused.
C36_FlagConsistency ==
  \A i \in Cards :
    (HasVoiceover(i) /\ Settled(i)) => (card[i].flag = ~card[i].paused)

\* The last removal took the last card away while it was the visible one,
\* the list is not empty and the user has not scrolled since.
RemovedVisibleLast ==
  /\ turn.op = "removeLast"
  /\ turn.from = tLen
  /\ turn.to = scrollsLeft
  /\ tLen > 0

\* C37: in a favorites list that is not empty, whenever no effect is due the
\* visible index is a position of the list; and after the last card has been
\* removed while it was the visible one, the effects come to rest with the
\* visible index at the new last position (unless the user scrolls or
\* removes another favorite first).
C37_IndexAfterRemoval ==
  /\ []((pending = << >> /\ tLen > 0) => activeIndex \in Items)
  /\ (RemovedVisibleLast
        ~> (\/ ~RemovedVisibleLast
            \/ pending = << >> /\ activeIndex = tLen - 1))

\* C37, the part about the range alone.
C37_IndexInRange ==
  (pending = << >> /\ tLen > 0) => activeIndex \in Items

\* C38: the favorites page is shown only to a signed-in user. A click on the
\* favorites button without a user opens the login modal and leaves the page
\* as it is; signing out leaves no user, a favorite count of 0 and never the
\* favorites page, and handleLogout takes the favorites page to the upload
\* page.
C38_FavoritesNeedUser ==
  /\ [](appState = "FAVORITES" => user)
  /\ [][(HandleShowFavorites /\ ~user) =>
          (isLoginModalOpen' /\ appState' = appState)]_vars
  /\ [][HandleLogout =>
          /\ ~user'
          /\ favoriteCount' = 0
          /\ appState' # "FAVORITES"]_vars
  /\ [](AppStateAfterLogout("FAVORITES") = "UPLOADING")

\* A signed-in user with a favorite is on the favorites page, which was
\* opened from the recipes of a plan.
C38_Witness ==
  /\ appState = "FAVORITES"
  /\ user
  /\ favoriteCount > 0
  /\ culinaryPlan.present

\* C6: in FeedView and FavoritesView at most one rendered card has
\* isVisible = true.
C6_AtMostOneVisible ==
  listKind \in {"feed", "favorites"}
  => Cardinality({i \in Cards : card[i].isVisible}) <= 1

C6_Witness ==
  /\ listKind = "favorites"
  /\ pending = << >>
  /\ activeIndex = 1
  /\ card[1].isVisible
  /\ ~card[0].isVisible

\* C7: in the single-plan scroller the card in view is active, and its audio
\* has been started if it has a voiceover.
C7_ScrollerCardActive ==
  (listKind = "scroller" /\ pending = << >>)
  => /\ card[inView].isVisible
     /\ HasVoiceover(inView) => StartedFromZero(inView)

\* Two consecutive reported video times a, b go from the last 0.3 s of the
\* clip to its first 0.3 s.
WrappedNearEnd(a, b) ==
  a > VideoDuration - LoopWindow /\ b < LoopWindow

\* In this step the video of card i reports a new time.
Reports(i) == video'[i].time # video[i].time

\* In this step the audio of card i is set to position 0 and, if it was
\* paused, play is requested (it plays, or the platform refused the play).
Resynced(i) ==
  /\ card'[i].pos = 0
  /\ card[i].paused => (~card'[i].paused \/ ~gesture)

\* C10 as stated: while a card with video and voiceover is active, every two
\* consecutive reported times that wrap from the last 0.3 s to the first
\* 0.3 s resynchronise the audio in the same step.
C10_LoopResyncAlways ==
  [][\A i \in Cards :
       (/\ Registered(i) /\ Reports(i)
        /\ video[i].prevActive
        /\ WrappedNearEnd(video[i].time, video'[i].time))
       => Resynced(i)]_vars

\* C10: while a card with video and voiceover is active and not muted, two
\* consecutive times reported to the same registration of the timeupdate
\* handler that wrap from the last 0.3 s to the first 0.3 s set the audio
\* position to 0 in the same step and request play if the audio was paused.
C10_LoopResync ==
  [][\A i \in Cards :
       (/\ Registered(i) /\ Reports(i)
        /\ ~card[i].muted
        /\ video[i].prevHandled
        /\ WrappedNearEnd(video[i].time, video'[i].time))
       => Resynced(i)]_vars

\* A loop of the video of the active, unmuted card 0 has just been handled:
\* the audio, paused before, is at 0 and has been asked to play.
C10_Witness ==
  /\ Registered(0) /\ ~card[0].muted
  /\ turn.op = "timeupdate"
  /\ WrappedNearEnd(turn.from, turn.to)
  /\ video[0].prevHandled
  /\ card[0].pos = 0 /\ ~card[0].paused /\ ~card[0].flag
  /\ card[0].evq # << >>
  /\ card[0].evq[Len(card[0].evq)] = "play"

\* C8: the card rendered for recipes[i] shows the videos of recipeVideos[i],
\* the storyboard of recipeStoryboards[i] and the voiceover of
\* recipeVoiceovers[i], and nothing where the plan has no entry at i.
C8_IndexCorrespondence ==
  rendered # << >> =>
    \A i \in Cards :
      /\ rendered[i].videoUrls =
           (IF plan.recipeVideos[i] = "urls"
              THEN Media("recipeVideos", i) ELSE NoMedia)
      /\ rendered[i].storyboard =
           (IF plan.recipeStoryboards[i]
              THEN Media("recipeStoryboards", i) ELSE NoMedia)
      /\ rendered[i].voiceoverUrl =
           (IF plan.recipeVoiceovers[i]
              THEN Media("recipeVoiceovers", i) ELSE NoMedia)

\* C8, the part that needs no fallback of the first recipe: a card other than
\* the first never shows the voiceover of another recipe.
C8_VoiceoverOfOwnRecipe ==
  rendered # << >> =>
    \A i \in Cards \ {0} :
      rendered[i].voiceoverUrl \in {NoMedia, Media("recipeVoiceovers", i)}

\* C9: a card that is not active and is paused does not begin playback on a
\* media signal (loadeddata, canplay, play resolution): only the user's play
\* button or a new activation starts it.
C9_StopBeatsStart ==
  [][\A i \in Cards :
       (/\ HasVoiceover(i)
        /\ ~card[i].isVisible /\ ~card'[i].isVisible
        /\ card[i].paused
        /\ ~ToggleVoiceover(i))
       => card'[i].paused]_vars

====
